---- MODULE Spec2Model ----
(***************************************************************************)
(* A model of the directory lister: src/src/main.rs (main), and            *)
(* src/src/entry.rs (Kind, Entry and its ordering, LongEntry and its       *)
(* conversion, read_entries, print_entries_short, print_entries_long) and  *)
(* src/src/error.rs (Error).                                               *)
(*                                                                         *)
(* Text is a sequence of character codes (ASCII): a name such as "a" is    *)
(* <<97>>, and standard output is the sequence of characters written so    *)
(* far.  The colour escapes the colored crate wraps around a name have no  *)
(* width and are left out of the text.                                     *)
(***************************************************************************)
EXTENDS Integers, Sequences, FiniteSets, TLC

VARIABLES
    pc,                \* position of main, or how the process ended
    dir,               \* the directory on disk, in the order read_dir yields it
    all,               \* flag -a
    long,              \* flag -l
    entries,           \* Vec<Entry> of main
    long_entries,      \* Vec<LongEntry> being collected / printed
    width,             \* print_entries_short: terminal width
    line_width,        \* print_entries_short: value of the fold minus 2
    max_entry_width,   \* print_entries_short: local of the column path
    entries_per_line,  \* print_entries_short: local of the column path
    index,             \* loop index of the running loop
    out,               \* standard output
    err,               \* the Error the run ended with, or "None"
    trap,              \* the trap (panic or signal) the run ended with
    arg,               \* pure-function specifications: the input
    res                \* pure-function specifications: the result

vars == <<pc, dir, all, long, entries, long_entries, width, line_width,
          max_entry_width, entries_per_line, index, out, err, trap, arg, res>>

mainVars == <<pc, dir, all, long, entries, long_entries, width, line_width,
              max_entry_width, entries_per_line, index, out, err, trap>>

----------------------------------------------------------------------------
(* Bounds of the model *)

\* most entries in a directory (and in a list handed to sort)
MaxEntries == 3

\* byte counts are sampled this far below and above every tier threshold
SizeDelta == 12

----------------------------------------------------------------------------
(* Characters and text *)

SP == 32
NL == 10
DOT == 46
SLASH == 47

\* " ".repeat(n)
Spaces(n) == [i \in 1..n |-> SP]

\* format!("{}", n) of an unsigned integer
RECURSIVE Decimal(_)
Decimal(n) ==
    IF n < 10 THEN <<48 + n>>
    ELSE Decimal(n \div 10) \o <<48 + (n % 10)>>

\* char::to_lowercase on the ASCII range
CharLower(c) == IF c >= 65 /\ c <= 90 THEN c + 32 ELSE c

\* str::to_lowercase
to_lowercase(s) == [i \in 1..Len(s) |-> CharLower(s[i])]

\* Ord for str: lexicographic on the bytes
RECURSIVE StrCmp(_, _)
StrCmp(s, t) ==
    IF s = <<>> THEN (IF t = <<>> THEN "Equal" ELSE "Less")
    ELSE IF t = <<>> THEN "Greater"
    ELSE IF Head(s) < Head(t) THEN "Less"
    ELSE IF Head(s) > Head(t) THEN "Greater"
    ELSE StrCmp(Tail(s), Tail(t))

----------------------------------------------------------------------------
(* Kind and Entry *)

Kinds == {"Directory", "Symlink", "File"}

\* #[derive(PartialOrd, Ord)] on Kind: the order of declaration
KindRank(k) ==
    CASE k = "Directory" -> 0 [] k = "Symlink" -> 1 [] k = "File" -> 2

KindCmp(a, b) ==
    IF KindRank(a) < KindRank(b) THEN "Less"
    ELSE IF KindRank(a) > KindRank(b) THEN "Greater"
    ELSE "Equal"

\* impl From<fs::FileType> for Kind
KindFrom(file_type) ==
    IF file_type = "file" THEN "File"
    ELSE IF file_type = "dir" THEN "Directory"
    ELSE "Symlink"

\* impl PartialEq for Entry
eq(self, other) == self.kind = other.kind /\ self.name = other.name

\* impl PartialOrd for Entry, with the lowercase step left out
partial_cmp_exact(self, other) ==
    LET k == KindCmp(self.kind, other.kind) IN
    IF k = "Equal" THEN StrCmp(self.name, other.name) ELSE k

\* impl PartialOrd for Entry
partial_cmp(self, other) ==
    LET k == KindCmp(self.kind, other.kind) IN
    IF k = "Equal"
    THEN LET l == StrCmp(to_lowercase(self.name), to_lowercase(other.name)) IN
         IF l = "Equal" THEN StrCmp(self.name, other.name) ELSE l
    ELSE k

\* impl Ord for Entry
cmp(self, other) == partial_cmp(self, other)

\* Vec::sort, the stable sort of the standard library, by Entry's cmp: an
\* element goes before the first element it is Less than.
RECURSIVE Insert(_, _)
Insert(sorted, e) ==
    IF sorted = <<>> THEN <<e>>
    ELSE IF cmp(e, Head(sorted)) = "Less" THEN <<e>> \o sorted
    ELSE <<Head(sorted)>> \o Insert(Tail(sorted), e)

RECURSIVE sort(_)
sort(v) ==
    IF v = <<>> THEN <<>>
    ELSE Insert(sort(SubSeq(v, 1, Len(v) - 1)), v[Len(v)])

\* Entry::is_hidden
is_hidden(self) == self.name # <<>> /\ self.name[1] = DOT

\* Entry::len
len(self) ==
    IF self.kind = "Directory" THEN Len(self.name) + 1 ELSE Len(self.name)

\* impl Display for Entry
EntryDisplay(self) ==
    IF self.kind = "Directory" THEN self.name \o <<SLASH>> ELSE self.name

----------------------------------------------------------------------------
(* Size formatting of LongEntry::try_from *)

KILOBYTE == 1000
GIGABYTE == KILOBYTE * 1000
TERABYTE == GIGABYTE * 1000

\* the size match with the tenths rounded to nearest instead of truncated
size_string_rounding(b) ==
    IF b < KILOBYTE THEN Decimal(b) \o <<66>>
    ELSE IF b < GIGABYTE
    THEN Decimal(b \div KILOBYTE) \o <<DOT>>
         \o Decimal(((b % KILOBYTE) + 50) \div (KILOBYTE \div 10)) \o <<75>>
    ELSE IF b < TERABYTE
    THEN Decimal(b \div GIGABYTE) \o <<DOT>>
         \o Decimal(((b % GIGABYTE) + 50000) \div (GIGABYTE \div 10)) \o <<71>>
    ELSE Decimal(b \div TERABYTE) \o <<DOT>>
         \o Decimal(((b % TERABYTE) + 50000000) \div (TERABYTE \div 10)) \o <<84>>

\* let size = match entry.metadata.size() { ... }
size_string(b) ==
    IF b < KILOBYTE THEN Decimal(b) \o <<66>>
    ELSE IF b < GIGABYTE
    THEN Decimal(b \div KILOBYTE) \o <<DOT>>
         \o Decimal((b % KILOBYTE) \div (KILOBYTE \div 10)) \o <<75>>
    ELSE IF b < TERABYTE
    THEN Decimal(b \div GIGABYTE) \o <<DOT>>
         \o Decimal((b % GIGABYTE) \div (GIGABYTE \div 10)) \o <<71>>
    ELSE Decimal(b \div TERABYTE) \o <<DOT>>
         \o Decimal((b % TERABYTE) \div (TERABYTE \div 10)) \o <<84>>

----------------------------------------------------------------------------
(* The file system, the identity database and the terminal: the inputs *)

\* names of directory members: ".b", "B", "a", "b"
Names == { <<DOT, 98>>, <<66>>, <<97>>, <<98>> }

\* what fs::FileType reports; "other" is a fifo, socket or device
FileTypes == {"file", "dir", "symlink", "other"}

\* fs::DirEntry
DirEntries == [name : Names, file_type : FileTypes]

\* a directory: at most MaxEntries members with different names, in the
\* order read_dir yields them
Directories ==
    UNION { { d \in [1..n -> DirEntries] :
                \A i, j \in 1..n : i # j => d[i].name # d[j].name } :
            n \in 0..MaxEntries }

\* fs::Metadata of a member (size, uid, gid), a fixed table by name
Metadata(name) ==
    CASE name = <<97>>      -> [size |-> 999,     uid |-> 0,    gid |-> 0]
      [] name = <<66>>      -> [size |-> 1000,    uid |-> 1000, gid |-> 100]
      [] name = <<98>>      -> [size |-> 1999,    uid |-> 4242, gid |-> 0]
      [] name = <<DOT, 98>> -> [size |-> 1000000, uid |-> 0,    gid |-> 4242]

\* libc::getpwuid: the passwd record of a uid, or a null pointer.
\* uid 0 is "root", uid 1000 is "al"; no other uid is registered.
getpwuid(uid) ==
    CASE uid = 0    -> [null |-> FALSE, pw_name |-> <<114, 111, 111, 116>>]
      [] uid = 1000 -> [null |-> FALSE, pw_name |-> <<97, 108>>]
      [] OTHER      -> [null |-> TRUE]

\* libc::getgrgid: gid 0 is "root", gid 100 is "users"
getgrgid(gid) ==
    CASE gid = 0   -> [null |-> FALSE, gr_name |-> <<114, 111, 111, 116>>]
      [] gid = 100 -> [null |-> FALSE, gr_name |-> <<117, 115, 101, 114, 115>>]
      [] OTHER     -> [null |-> TRUE]

\* (*passwd).pw_name through a null pointer is undefined behaviour: the
\* process is killed by SIGSEGV, or the read yields some text (here the
\* empty string).
NullDerefOutcomes == {"SIGSEGV", "garbage"}
GarbageText == <<>>

\* fs::read_link of a member: the target text "t", or an I/O error (the
\* member is no symlink, or was removed meanwhile)
ReadLinkResults(dir_entry) ==
    IF dir_entry.file_type = "symlink"
    THEN {[ok |-> TRUE, value |-> <<116>>], [ok |-> FALSE, error |-> "Io"]}
    ELSE {[ok |-> FALSE, error |-> "Io"]}

\* the widths terminal_size() reports when it reports one
TerminalWidths == {1, 4, 6}

\* Width(80) of terminal_size().map_or(Width(80), ..)
DefaultWidth == 80

\* what the OS answers for one DirEntry during classification
Faults == {"None", "InvalidUnicode", "Io"}

\* usize arithmetic wraps modulo 2^64 when overflow checks are off.  The
\* integers of TLC stop at 2^31, so 2^30 stands for the modulus: all the
\* code does with a wrapped value is compare it with a u16 width.
UsizeModulus == 2^30

----------------------------------------------------------------------------
(* read_entries *)

\* impl TryFrom<fs::DirEntry> for Entry
EntryTryFrom(dir_entry, fault) ==
    IF fault = "InvalidUnicode" THEN [ok |-> FALSE, error |-> "StringConversion"]
    ELSE IF fault = "Io" THEN [ok |-> FALSE, error |-> "Io"]
    ELSE [ok |-> TRUE,
          value |-> [kind |-> KindFrom(dir_entry.file_type),
                     name |-> dir_entry.name,
                     dir_entry |-> dir_entry]]

\* the filter of read_entries without the test of `all`
SkipEntryAlways(a, entry) == is_hidden(entry)

\* if !all && entry.is_hidden() { continue; }
SkipEntry(a, entry) == ~a /\ is_hidden(entry)

\* the for loop of read_entries from position i, entries collected so far
RECURSIVE ReadLoop(_, _, _, _, _)
ReadLoop(dir_entries, faults, a, i, acc) ==
    IF i > Len(dir_entries) THEN [ok |-> TRUE, value |-> acc]
    ELSE LET r == EntryTryFrom(dir_entries[i], faults[i]) IN
         IF ~r.ok THEN [ok |-> FALSE, error |-> r.error]
         ELSE IF SkipEntry(a, r.value)
         THEN ReadLoop(dir_entries, faults, a, i + 1, acc)
         ELSE ReadLoop(dir_entries, faults, a, i + 1, Append(acc, r.value))

\* read_entries(path, all); listing is what fs::read_dir and the collect of
\* its items answer
read_entries(dir_entries, listing, faults, a) ==
    IF listing # "Ok" THEN [ok |-> FALSE, error |-> "Io"]
    ELSE ReadLoop(dir_entries, faults, a, 1, <<>>)

----------------------------------------------------------------------------
(* LongEntry *)

\* impl TryFrom<Entry> for LongEntry.  owner_ub and group_ub are what the
\* dereference of a null record does; link is what fs::read_link answers.
\* The result is a LongEntry, an Error, or the signal that kills the process.
LongEntryTryFrom(entry, owner_ub, group_ub, link) ==
    LET metadata == Metadata(entry.name)
        passwd == getpwuid(metadata.uid)
        group == getgrgid(metadata.gid)
    IN  IF passwd.null /\ owner_ub = "SIGSEGV" THEN [ok |-> FALSE, signal |-> TRUE]
        ELSE IF group.null /\ group_ub = "SIGSEGV" THEN [ok |-> FALSE, signal |-> TRUE]
        ELSE IF entry.kind = "Symlink" /\ ~link.ok
        THEN [ok |-> FALSE, signal |-> FALSE, error |-> link.error]
        ELSE [ok |-> TRUE,
              value |-> [entry |-> entry,
                         owner |-> IF passwd.null THEN GarbageText ELSE passwd.pw_name,
                         group |-> IF group.null THEN GarbageText ELSE group.gr_name,
                         size |-> size_string(metadata.size),
                         link_target |-> IF entry.kind = "Symlink"
                                         THEN <<link.value>> ELSE <<>>]]

\* impl Display for LongEntry; " -> " is 32 45 62 32
LongEntryDisplay(self) ==
    IF self.entry.kind = "Symlink"
    THEN self.entry.name \o <<SP, 45, 62, SP>> \o self.link_target[1]
    ELSE EntryDisplay(self.entry)

\* the maximum of a set of naturals, 0 for the empty set (.max().unwrap_or(0))
MaxOf(S) == IF S = {} THEN 0 ELSE CHOOSE m \in S : \A x \in S : x <= m

\* max_field_width!(vec, field)
MaxOwnerWidth(v) == MaxOf({Len(v[i].owner) : i \in 1..Len(v)})
MaxGroupWidth(v) == MaxOf({Len(v[i].group) : i \in 1..Len(v)})
MaxSizeWidth(v) == MaxOf({Len(v[i].size) : i \in 1..Len(v)})

\* the println! of print_entries_long for one entry
LongLine(v, entry) ==
    Spaces(MaxOwnerWidth(v) - Len(entry.owner)) \o entry.owner \o <<SP>>
    \o Spaces(MaxGroupWidth(v) - Len(entry.group)) \o entry.group \o <<SP>>
    \o Spaces(MaxSizeWidth(v) - Len(entry.size)) \o entry.size \o <<SP>>
    \o LongEntryDisplay(entry) \o <<NL>>

----------------------------------------------------------------------------
(* print_entries_short *)

\* entries.iter().fold(0, |acc, entry| acc + entry.len() + 2)
RECURSIVE Fold(_)
Fold(v) == IF v = <<>> THEN 0 ELSE Fold(SubSeq(v, 1, Len(v) - 1)) + len(v[Len(v)]) + 2

\* usize subtraction with overflow checks off
WrappingSub(a, b) == (a - b) % UsizeModulus

\* entries.iter().map(Entry::len).max().unwrap_or(0)
MaxEntryWidth(v) == MaxOf({len(v[i]) : i \in 1..Len(v)})

\* the single-line loop with the separator written after every entry
LineCellAlwaysSeparated(v, i) ==
    IF i = Len(v) - 1 THEN EntryDisplay(v[i + 1]) \o <<SP, SP>> \o <<NL>>
    ELSE EntryDisplay(v[i + 1]) \o <<SP, SP>>

\* what the single-line loop writes at index i (0-based)
LineCell(v, i) ==
    IF i = Len(v) - 1 THEN EntryDisplay(v[i + 1]) \o <<NL>>
    ELSE EntryDisplay(v[i + 1]) \o <<SP, SP>>

\* the column loop with the row test on index instead of index + 1
ColumnCellOffByOne(v, i, per_line, max_width) ==
    IF i % per_line = 0 THEN EntryDisplay(v[i + 1]) \o <<NL>>
    ELSE EntryDisplay(v[i + 1]) \o Spaces(max_width - len(v[i + 1])) \o <<SP, SP>>

\* what the column loop writes at index i (0-based); per_line is not 0
ColumnCell(v, i, per_line, max_width) ==
    IF (i + 1) % per_line = 0 THEN EntryDisplay(v[i + 1]) \o <<NL>>
    ELSE EntryDisplay(v[i + 1]) \o Spaces(max_width - len(v[i + 1])) \o <<SP, SP>>

\* if entries.len() % entries_per_line != 0 { println!(); }; per_line is not 0
ColumnTail(v, per_line) == IF Len(v) % per_line # 0 THEN <<NL>> ELSE <<>>

----------------------------------------------------------------------------
(* main *)

\* Error::print_and_exit writes the error to stderr and exits: standard
\* output stays as it is, and nothing pending is written to it.
StdoutAtExitFlushing(o, pending) ==
    IF pending = <<>> THEN o ELSE o \o LongLine(pending, pending[1])

StdoutAtExit(o, pending) == o

MainInit ==
    /\ pc = "main"
    /\ dir \in Directories
    /\ all \in BOOLEAN
    /\ long \in BOOLEAN
    /\ entries = <<>>
    /\ long_entries = <<>>
    /\ width = 0
    /\ line_width = 0
    /\ max_entry_width = 0
    /\ entries_per_line = 0
    /\ index = 0
    /\ out = <<>>
    /\ err = "None"
    /\ trap = "None"

Init == MainInit /\ arg = <<>> /\ res = <<>>

\* env::current_dir().map_err(Error::from).unwrap_or_else(print_and_exit)
CurrentDir ==
    /\ pc = "main"
    /\ \E ok \in BOOLEAN :
         /\ pc' = IF ok THEN "read" ELSE "exit_error"
         /\ err' = IF ok THEN err ELSE "Io"
         /\ out' = IF ok THEN out ELSE StdoutAtExit(out, <<>>)
    /\ UNCHANGED <<dir, all, long, entries, long_entries, width, line_width,
                   max_entry_width, entries_per_line, index, trap, arg, res>>

\* entry::read_entries(path, all).unwrap_or_else(|err| err.print_and_exit()).
\* The loop stops at the first entry whose classification fails, so the OS
\* answers after that entry do not matter: first is its position (0: none).
ReadEntries ==
    /\ pc = "read"
    /\ \E listing \in {"Ok", "Io"}, first \in 0..Len(dir),
          fault \in Faults \ {"None"} :
         LET faults == [i \in 1..Len(dir) |-> IF i = first THEN fault ELSE "None"]
             r == read_entries(dir, listing, faults, all)
         IN
         /\ pc' = IF r.ok THEN "sort" ELSE "exit_error"
         /\ entries' = IF r.ok THEN r.value ELSE entries
         /\ err' = IF r.ok THEN err ELSE r.error
         /\ out' = IF r.ok THEN out ELSE StdoutAtExit(out, <<>>)
    /\ UNCHANGED <<dir, all, long, long_entries, width, line_width,
                   max_entry_width, entries_per_line, index, trap, arg, res>>

\* entries.sort(); if long { .. } else { .. }
Sort ==
    /\ pc = "sort"
    /\ entries' = sort(entries)
    /\ pc' = IF long THEN "convert" ELSE "short"
    /\ UNCHANGED <<dir, all, long, long_entries, width, line_width,
                   max_entry_width, entries_per_line, index, out, err, trap,
                   arg, res>>

\* one item of entries.into_iter().map(Entry::try_into).collect(): the
\* conversion of the next entry; the first Err ends the collect and the run
Convert ==
    /\ pc = "convert"
    /\ index < Len(entries)
    /\ \E owner_ub \in NullDerefOutcomes, group_ub \in NullDerefOutcomes,
          link \in ReadLinkResults(entries[index + 1].dir_entry) :
         LET r == LongEntryTryFrom(entries[index + 1], owner_ub, group_ub, link) IN
         IF r.ok
         THEN /\ long_entries' = Append(long_entries, r.value)
              /\ index' = index + 1
              /\ UNCHANGED <<pc, err, trap, out>>
         ELSE IF r.signal
         THEN /\ pc' = "killed"
              /\ trap' = "SIGSEGV"
              /\ UNCHANGED <<long_entries, index, err, out>>
         ELSE /\ pc' = "exit_error"
              /\ err' = r.error
              /\ out' = StdoutAtExit(out, long_entries)
              /\ UNCHANGED <<long_entries, index, trap>>
    /\ UNCHANGED <<dir, all, long, entries, width, line_width,
                   max_entry_width, entries_per_line, arg, res>>

\* the collect ends with Ok: entry::print_entries_long(long_entries) starts
Collected ==
    /\ pc = "convert"
    /\ index = Len(entries)
    /\ pc' = "print_long"
    /\ index' = 0
    /\ UNCHANGED <<dir, all, long, entries, long_entries, width, line_width,
                   max_entry_width, entries_per_line, out, err, trap, arg, res>>

\* one iteration of the for loop of print_entries_long
PrintLong ==
    /\ pc = "print_long"
    /\ index < Len(long_entries)
    /\ out' = out \o LongLine(long_entries, long_entries[index + 1])
    /\ index' = index + 1
    /\ UNCHANGED <<pc, dir, all, long, entries, long_entries, width, line_width,
                   max_entry_width, entries_per_line, err, trap, arg, res>>

\* print_entries_long returns, and main with it
LongReturn ==
    /\ pc = "print_long"
    /\ index = Len(long_entries)
    /\ pc' = "exit_ok"
    /\ UNCHANGED <<dir, all, long, entries, long_entries, width, line_width,
                   max_entry_width, entries_per_line, index, out, err, trap,
                   arg, res>>

\* print_entries_short up to the choice of the path: the terminal width, the
\* fit test, and the locals of the column path.  The subtraction panics on
\* underflow when overflow checks are on and wraps when they are off.
ShortBegin ==
    /\ pc = "short"
    /\ \E known \in BOOLEAN, w \in TerminalWidths, overflow_checks \in BOOLEAN :
         LET W == IF known THEN w ELSE DefaultWidth
             total == Fold(entries)
         IN  IF total < 2 /\ overflow_checks
             THEN /\ pc' = "panicked"
                  /\ trap' = "subtract_overflow"
                  /\ width' = W
                  /\ UNCHANGED <<line_width, max_entry_width, entries_per_line>>
             ELSE /\ width' = W
                  /\ line_width' = WrappingSub(total, 2)
                  /\ trap' = trap
                  /\ IF W >= line_width'
                     THEN /\ pc' = "line"
                          /\ UNCHANGED <<max_entry_width, entries_per_line>>
                     ELSE /\ pc' = "columns"
                          /\ max_entry_width' = MaxEntryWidth(entries)
                          /\ entries_per_line' = W \div (max_entry_width' + 2)
    /\ index' = 0
    /\ UNCHANGED <<dir, all, long, entries, long_entries, out, err, arg, res>>

\* one iteration of the single-line loop
LineStep ==
    /\ pc = "line"
    /\ index < Len(entries)
    /\ out' = out \o LineCell(entries, index)
    /\ index' = index + 1
    /\ UNCHANGED <<pc, dir, all, long, entries, long_entries, width, line_width,
                   max_entry_width, entries_per_line, err, trap, arg, res>>

\* the return of the single-line path
LineReturn ==
    /\ pc = "line"
    /\ index = Len(entries)
    /\ pc' = "exit_ok"
    /\ UNCHANGED <<dir, all, long, entries, long_entries, width, line_width,
                   max_entry_width, entries_per_line, index, out, err, trap,
                   arg, res>>

\* one iteration of the column loop: (index + 1) % entries_per_line panics
\* when entries_per_line is 0
ColumnStep ==
    /\ pc = "columns"
    /\ index < Len(entries)
    /\ IF entries_per_line = 0
       THEN /\ pc' = "panicked"
            /\ trap' = "rem_by_zero"
            /\ UNCHANGED <<out, index>>
       ELSE /\ out' = out \o ColumnCell(entries, index, entries_per_line,
                                        max_entry_width)
            /\ index' = index + 1
            /\ UNCHANGED <<pc, trap>>
    /\ UNCHANGED <<dir, all, long, entries, long_entries, width, line_width,
                   max_entry_width, entries_per_line, err, arg, res>>

\* after the column loop: entries.len() % entries_per_line, the final newline
ColumnFinish ==
    /\ pc = "columns"
    /\ index = Len(entries)
    /\ IF entries_per_line = 0
       THEN /\ pc' = "panicked"
            /\ trap' = "rem_by_zero"
            /\ UNCHANGED out
       ELSE /\ out' = out \o ColumnTail(entries, entries_per_line)
            /\ pc' = "exit_ok"
            /\ UNCHANGED trap
    /\ UNCHANGED <<dir, all, long, entries, long_entries, width, line_width,
                   max_entry_width, entries_per_line, index, err, arg, res>>

Next ==
    \/ CurrentDir
    \/ ReadEntries
    \/ Sort
    \/ Convert
    \/ Collected
    \/ PrintLong
    \/ LongReturn
    \/ ShortBegin
    \/ LineStep
    \/ LineReturn
    \/ ColumnStep
    \/ ColumnFinish

Spec == Init /\ [][Next]_vars

----------------------------------------------------------------------------
(* The ordering and the size format as functions of their inputs *)

\* main's variables while a function is checked on its own
MainIdle ==
    /\ dir = <<>>
    /\ all = FALSE
    /\ long = FALSE
    /\ entries = <<>>
    /\ long_entries = <<>>
    /\ width = 0
    /\ line_width = 0
    /\ max_entry_width = 0
    /\ entries_per_line = 0
    /\ index = 0
    /\ out = <<>>
    /\ err = "None"
    /\ trap = "None"

\* every Entry a classification can produce
EntryUniverse == { EntryTryFrom(d, "None").value : d \in DirEntries }

EntryLists == UNION { [1..n -> EntryUniverse] : n \in 0..MaxEntries }

OrdInit ==
    /\ pc = "ord_input"
    /\ arg \in EntryLists
    /\ res = <<>>
    /\ MainIdle

\* a.cmp(b) for every pair of the list
ApplyCmp ==
    /\ pc = "ord_input"
    /\ res' = [i \in 1..Len(arg) |-> [j \in 1..Len(arg) |-> cmp(arg[i], arg[j])]]
    /\ pc' = "ord_compared"
    /\ UNCHANGED <<dir, all, long, entries, long_entries, width, line_width,
                   max_entry_width, entries_per_line, index, out, err, trap, arg>>

\* entries.sort() on the list
ApplySort ==
    /\ pc = "ord_input"
    /\ res' = sort(arg)
    /\ pc' = "ord_sorted"
    /\ UNCHANGED <<dir, all, long, entries, long_entries, width, line_width,
                   max_entry_width, entries_per_line, index, out, err, trap, arg>>

OrdNext == ApplyCmp \/ ApplySort

SpecOrd == OrdInit /\ [][OrdNext]_vars

\* byte counts: the small ones, those around every threshold of the match,
\* and the examples of the specification
SizeSamples ==
    (0..SizeDelta)
    \cup UNION { ((t - SizeDelta)..(t + SizeDelta)) : t \in {KILOBYTE, GIGABYTE, TERABYTE} }
    \cup {512, 4200, 1999, 999999, 1500000, 999999999, 1999999999}

SizeInit ==
    /\ pc = "size_input"
    /\ arg \in SizeSamples
    /\ res = <<>>
    /\ MainIdle

\* the size match of LongEntry::try_from on the byte count
FormatSize ==
    /\ pc = "size_input"
    /\ res' = size_string(arg)
    /\ pc' = "size_formatted"
    /\ UNCHANGED <<dir, all, long, entries, long_entries, width, line_width,
                   max_entry_width, entries_per_line, index, out, err, trap, arg>>

SizeNext == FormatSize

SpecSize == SizeInit /\ [][SizeNext]_vars

----------------------------------------------------------------------------
(* What the specification says, stated without the code's operators *)

\* s comes before t in lexicographic order of the character codes
SeqLess(s, t) ==
    \E k \in 1..(Len(t)) :
        /\ \A i \in 1..(k - 1) : i <= Len(s) /\ s[i] = t[i]
        /\ (k > Len(s) \/ (k <= Len(s) /\ s[k] < t[k]))

\* Directory < Symlink < File
SpecKindOrder == <<"Directory", "Symlink", "File">>
SpecKindBefore(k1, k2) ==
    \E i, j \in 1..3 : i < j /\ SpecKindOrder[i] = k1 /\ SpecKindOrder[j] = k2

\* a comes strictly before b in the order on (kind, lowercase(name), name)
KeyLess(a, b) ==
    \/ SpecKindBefore(a.kind, b.kind)
    \/ /\ a.kind = b.kind
       /\ \/ SeqLess(to_lowercase(a.name), to_lowercase(b.name))
          \/ /\ to_lowercase(a.name) = to_lowercase(b.name)
             /\ SeqLess(a.name, b.name)

\* how often e occurs in the list v
Count(v, e) == Cardinality({i \in 1..Len(v) : v[i] = e})

\* the members of v that share kind and name with e, in their order in v
SameKey(v, e) == LET Test(x) == x.kind = e.kind /\ x.name = e.name
                 IN SelectSeq(v, Test)

\* C1: the comparator is a total order, lexicographic on (kind,
\* lowercase(name), name) with Directory < Symlink < File: it answers Equal
\* exactly for entries of equal kind and name, Less exactly when the key is
\* smaller, it is antisymmetric and transitive; and a sorted list is a
\* rearrangement of its input in which no entry comes after one with a
\* larger key, so that directories precede symlinks, which precede files,
\* and entries of equal key keep their order.
C1_ComparatorIsKeyOrder ==
    /\ pc = "ord_compared" =>
         \A i, j \in 1..Len(arg) :
            /\ res[i][j] = "Equal" <=>
                 (arg[i].kind = arg[j].kind /\ arg[i].name = arg[j].name)
            /\ res[i][j] = "Less" <=> KeyLess(arg[i], arg[j])
            /\ res[i][j] = "Greater" <=> KeyLess(arg[j], arg[i])
            /\ res[i][j] = "Less" <=> res[j][i] = "Greater"
            /\ \A k \in 1..Len(arg) :
                 (res[i][j] = "Less" /\ res[j][k] = "Less") => res[i][k] = "Less"
    /\ pc = "ord_sorted" =>
         /\ Len(res) = Len(arg)
         /\ \A e \in EntryUniverse : Count(res, e) = Count(arg, e)
         /\ \A i, j \in 1..Len(res) : i < j =>
              /\ ~KeyLess(res[j], res[i])
              /\ ~SpecKindBefore(res[j].kind, res[i].kind)
         /\ \A i \in 1..Len(arg) : SameKey(res, arg[i]) = SameKey(arg, arg[i])

\* a list of a file "b", a file "B" and a directory "b", not in order, sorted
C1_Witness ==
    /\ pc = "ord_sorted"
    /\ Len(res) = 3
    /\ res # arg
    /\ res[1].kind = "Directory" /\ res[1].name = <<98>>
    /\ res[2].kind = "File" /\ res[2].name = <<66>>
    /\ res[3].kind = "File" /\ res[3].name = <<98>>

\* C2: when read_entries succeeds, it returns the directory's entries whose
\* name does not start with '.' when all is false, and every entry when all
\* is true: each of those once, classified, and nothing else.
C2_ReadEntriesFilter ==
    pc = "sort" =>
        LET kept == {i \in 1..Len(dir) : all \/ dir[i].name[1] # DOT} IN
        /\ Len(entries) = Cardinality(kept)
        /\ \A i \in kept : \E k \in 1..Len(entries) : entries[k].dir_entry = dir[i]
        /\ \A k \in 1..Len(entries) :
             /\ \E i \in kept : entries[k].dir_entry = dir[i]
             /\ entries[k].name = entries[k].dir_entry.name
             /\ entries[k].kind = KindFrom(entries[k].dir_entry.file_type)
        /\ \A k, m \in 1..Len(entries) :
             (k < m) => \E i, j \in kept :
                          i < j /\ entries[k].dir_entry = dir[i]
                                /\ entries[m].dir_entry = dir[j]

\* a read without -a that dropped a hidden entry and kept two others
C2_Witness ==
    /\ pc = "sort"
    /\ ~all
    /\ Len(dir) = 3
    /\ Len(entries) = 2
    /\ \E i \in 1..Len(dir) : dir[i].name[1] = DOT


\* text is q "." t unit, where q whole units and t tenths are b truncated:
\* q * u + t * (u / 10) <= b < q * u + (t + 1) * (u / 10)
TruncatedForm(text, b, u, unit) ==
    \E q \in 0..(b \div u), t \in 0..9 :
        /\ q * u <= b
        /\ t * (u \div 10) <= b - q * u
        /\ b - q * u < (t + 1) * (u \div 10)
        /\ text = Decimal(q) \o <<DOT, 48 + t, unit>>

\* the examples of the specification: 999 -> 999B, 1000 -> 1.0K,
\* 1999 -> 1.9K, 999999 -> 999.9K, 1000000 -> 1.0G
SizeExamples ==
    /\ arg = 999 => res = <<57, 57, 57, 66>>
    /\ arg = 1000 => res = <<49, DOT, 48, 75>>
    /\ arg = 1999 => res = <<49, DOT, 57, 75>>
    /\ arg = 999999 => res = <<57, 57, 57, DOT, 57, 75>>
    /\ arg = 1000000 => res = <<49, DOT, 48, 71>>

\* C3 as amended: the size string follows the four-tier truncating scheme
\* with the tiers the code has: b < 1000 gives '<b>B'; 1000 <= b < 1,000,000
\* gives the truncated form in units of 1000 and 'K'; 1,000,000 <= b <
\* 1,000,000,000 gives the truncated form in units of 1,000,000 and 'G'; any
\* larger b gives the truncated form in units of 1,000,000,000 and 'T'.
C3_SizeTiers ==
    pc = "size_formatted" =>
        /\ arg < 1000 => res = Decimal(arg) \o <<66>>
        /\ (1000 <= arg /\ arg < 1000000) => TruncatedForm(res, arg, 1000, 75)
        /\ (1000000 <= arg /\ arg < 1000000000) =>
             TruncatedForm(res, arg, 1000000, 71)
        /\ 1000000000 <= arg => TruncatedForm(res, arg, 1000000000, 84)
        /\ SizeExamples

\* 1,000,000,000 bytes formatted: "1.0T"
C3_Witness ==
    /\ pc = "size_formatted"
    /\ arg = 1000000000
    /\ res = <<49, DOT, 48, 84>>

\* C3 as claimed: the 'G' tier reaches up to 1,000,000,000,000, so every b
\* of at least 1,000,000 below that limit ends in 'G', never 'T'.
\* (b < 10^12 is b \div 1000 < 10^9.)
C3_Original ==
    pc = "size_formatted" =>
        /\ arg < 1000 => res = Decimal(arg) \o <<66>>
        /\ (1000 <= arg /\ arg < 1000000) => TruncatedForm(res, arg, 1000, 75)
        /\ (1000000 <= arg /\ arg \div 1000 < 1000000000) =>
             TruncatedForm(res, arg, 1000000, 71)
        /\ SizeExamples


----------------------------------------------------------------------------
(* The short listing, as the specification describes it *)

\* effective display width: the name's length, +1 for a directory
EffWidth(e) == Len(e.name) + (IF e.kind = "Directory" THEN 1 ELSE 0)

\* the displayed text: the name, with a trailing '/' for a directory
Shown(e) == IF e.kind = "Directory" THEN Append(e.name, SLASH) ELSE e.name

\* the width of a non-empty list on one line, two spaces between neighbours
RECURSIVE NeededWidth(_)
NeededWidth(v) ==
    IF Len(v) = 1 THEN EffWidth(v[1])
    ELSE EffWidth(v[1]) + 2 + NeededWidth(Tail(v))

FitsOneLine(v, W) == v # <<>> /\ NeededWidth(v) <= W

DoesNotFit(v, W) == v # <<>> /\ NeededWidth(v) > W

\* the entries of a non-empty list joined by two spaces
RECURSIVE JoinedLine(_)
JoinedLine(v) ==
    IF Len(v) = 1 THEN Shown(v[1])
    ELSE Shown(v[1]) \o <<SP, SP>> \o JoinedLine(Tail(v))

\* every entry on a line of its own
RECURSIVE OnePerLine(_)
OnePerLine(v) ==
    IF v = <<>> THEN <<>> ELSE Shown(v[1]) \o <<NL>> \o OnePerLine(Tail(v))

\* the largest effective width of a list
MaxEffWidth(v) ==
    CHOOSE m \in {EffWidth(v[i]) : i \in 1..Len(v)} \cup {0} :
        \A i \in 1..Len(v) : EffWidth(v[i]) <= m

\* print_entries_short runs or has run
ShortStarted == ~long /\ pc \in {"line", "columns", "panicked", "exit_ok"}

\* print_entries_short took the column path
ColumnPath ==
    /\ ShortStarted
    /\ trap # "subtract_overflow"
    /\ width < line_width

\* an entry padded to width m and followed by the two-space gutter
PaddedCell(e, m) == Shown(e) \o [i \in 1..(m - EffWidth(e)) |-> SP] \o <<SP, SP>>

\* C4: in the column path, entries_per_line = 0 is guarded: nothing traps,
\* and the rendering completes with each entry on a line of its own.
C4_ZeroPerLineGuarded ==
    (ColumnPath /\ entries_per_line = 0) =>
        /\ pc # "panicked"
        /\ pc = "exit_ok" => out = OnePerLine(entries)

\* C5: a non-empty sorted list that fits the terminal width is written in
\* input order on a single line, two spaces between neighbours, nothing
\* after the last entry but one newline; the column path is not taken.
C5_SingleLine ==
    (ShortStarted /\ FitsOneLine(entries, width)) =>
        /\ pc \in {"line", "exit_ok"}
        /\ pc = "exit_ok" => out = JoinedLine(entries) \o <<NL>>

\* a directory ".b" and a file that exactly fill a terminal of width 6
C5_Witness ==
    /\ ~long
    /\ pc = "exit_ok"
    /\ width = 6
    /\ Len(entries) = 2
    /\ entries[1].kind = "Directory"
    /\ NeededWidth(entries) = 6
    /\ Len(out) = 7


\* row r (from 1) of a grid of n entries per row over v: its entries in
\* order, each but the last padded to m and followed by the gutter; the last
\* is followed by the gutter too when trailing, and then by the newline
RECURSIVE RowCells(_, _, _, _)
RowCells(v, from, to, m) ==
    IF from >= to THEN <<>>
    ELSE PaddedCell(v[from], m) \o RowCells(v, from + 1, to, m)

RowText(v, r, n, m, trailing) ==
    LET first == (r - 1) * n + 1
        last == IF r * n < Len(v) THEN r * n ELSE Len(v)
    IN  RowCells(v, first, last, m)
        \o (IF trailing THEN PaddedCell(v[last], m) ELSE Shown(v[last]))
        \o <<NL>>

RECURSIVE GridRows(_, _, _, _, _)
GridRows(v, r, n, m, trailing) ==
    IF (r - 1) * n >= Len(v) THEN <<>>
    ELSE RowText(v, r, n, m, trailing[r]) \o GridRows(v, r + 1, n, m, trailing)

\* out is v laid out row-major in rows of n entries, the last row possibly
\* shorter; what follows the last entry of a row before its newline is left
\* open (nothing, or padding and gutter)
IsGrid(text, v, n, m) ==
    \E trailing \in [1..Len(v) -> BOOLEAN] : text = GridRows(v, 1, n, m, trailing)

\* C6: a list that does not fit on one line is written in input order,
\* row-major, entries_per_line = W / (max_width + 2) entries in every row
\* except possibly the last, every entry that is not the last of its row
\* padded to the maximum effective width and followed by two spaces.
C6_GridRows ==
    (ShortStarted /\ pc \in {"exit_ok", "panicked"} /\ DoesNotFit(entries, width)) =>
        /\ pc = "exit_ok"
        /\ IsGrid(out, entries, width \div (MaxEffWidth(entries) + 2),
                  MaxEffWidth(entries))

\* C6 in the runs that complete: the layout is the claimed one whenever
\* entries_per_line is not 0
C6_GridRowsWhenCompleted ==
    (ShortStarted /\ pc = "exit_ok" /\ DoesNotFit(entries, width)) =>
        IsGrid(out, entries, width \div (MaxEffWidth(entries) + 2),
               MaxEffWidth(entries))

\* what the column path has written after k entries: the entry that
\* completes a row of n is followed directly by a newline, every other entry
\* by its padding and the gutter
RECURSIVE ColumnsUpTo(_, _, _, _)
ColumnsUpTo(v, k, n, m) ==
    IF k = 0 THEN <<>>
    ELSE ColumnsUpTo(v, k - 1, n, m)
         \o (IF k % n = 0 THEN Shown(v[k]) \o <<NL>> ELSE PaddedCell(v[k], m))

\* C7 as amended: in the column path, the last entry of every complete row
\* of entries_per_line entries is followed directly by a single newline;
\* the last entry of a partial final row is followed by its padding and the
\* two-space gutter like the entries before it, and then by a single
\* newline; an output of at least one entry ends with exactly one newline.
\* Nothing is written when entries_per_line is 0.
C7_RowEnds ==
    ColumnPath =>
        LET m == MaxEffWidth(entries)
            n == width \div (m + 2)
        IN  /\ n = 0 => out = <<>>
            /\ n > 0 =>
                 /\ out = ColumnsUpTo(entries, index, n, m)
                          \o (IF pc = "exit_ok" /\ Len(entries) % n # 0
                              THEN <<NL>> ELSE <<>>)
                 /\ (pc = "exit_ok" /\ entries # <<>>) =>
                      /\ out[Len(out)] = NL
                      /\ out[Len(out) - 1] # NL

\* three entries in rows of two: a complete row and a partial final row
C7_Witness ==
    /\ ColumnPath
    /\ pc = "exit_ok"
    /\ entries_per_line = 2
    /\ Len(entries) = 3
    /\ out[Len(out) - 1] = SP

\* C7 as claimed: in the column path the last entry of every row, the
\* partial final row included, is followed directly by the newline (no
\* space stands before a newline), and the output ends with one newline.
C7_Original ==
    (ColumnPath /\ pc = "exit_ok" /\ entries # <<>>) =>
        /\ \A k \in 1..Len(out) : out[k] = NL => (k > 1 /\ out[k - 1] \notin {SP, NL})
        /\ out[Len(out)] = NL

\* C8: the conversion of an entry whose owner or group ID has no record
\* does not crash: the run is not killed by a signal.
C8_UnregisteredIdDoesNotCrash ==
    (long /\ \E i \in 1..Len(entries) :
                \/ getpwuid(Metadata(entries[i].name).uid).null
                \/ getgrgid(Metadata(entries[i].name).gid).null)
        => (pc # "killed" /\ trap # "SIGSEGV")

\* C9: no partial listing.  A run that ended with an Error ended in the
\* error exit and wrote nothing to standard output; and whenever a listing
\* line has been written, no Error occurred, the read has succeeded, the
\* entries are sorted, and in long mode every entry has been converted.
C9_NoPartialListing ==
    /\ err # "None" => (pc = "exit_error" /\ out = <<>>)
    /\ pc = "exit_error" => (err # "None" /\ out = <<>>)
    /\ out # <<>> =>
         /\ err = "None"
         /\ pc \in {"print_long", "line", "columns", "exit_ok"}
         /\ \A i, j \in 1..Len(entries) : i < j => KeyLess(entries[i], entries[j])
         /\ \A i \in 1..Len(dir) :
              (all \/ dir[i].name[1] # DOT) =>
                 \E k \in 1..Len(entries) : entries[k].dir_entry = dir[i]
         /\ long =>
              /\ Len(long_entries) = Len(entries)
              /\ \A i \in 1..Len(entries) : long_entries[i].entry = entries[i]

\* a long listing whose conversion failed after an entry had been converted
C9_Witness ==
    /\ long
    /\ pc = "exit_error"
    /\ err = "Io"
    /\ Len(long_entries) >= 1
    /\ out = <<>>

\* C10: the fit test's subtraction, (sum of (effective width + 2)) - 2,
\* never goes below zero: no panic on overflow and no wrapped value.
C10_FitTestNeverUnderflows ==
    ShortStarted =>
        /\ trap # "subtract_overflow"
        /\ line_width = Fold(entries) - 2

====
